---- MODULE Spec2Model ----
(***************************************************************************)
(* The movie database ETL of run_database.py: the genre table, the movie   *)
(* table (identity resolver, metadata matcher, record merger) and the      *)
(* box-office table, built from the sales and the metadata datasets.       *)
(*                                                                         *)
(* A dataset is a sequence of rows in file order.  A cell is the text of   *)
(* its CSV field, a sequence of one-character strings.  pd.read_csv loads  *)
(* an empty field as NaN and never yields an empty string, so the empty    *)
(* text stands for NaN.  Row labels are 1-based here and 0-based in        *)
(* pandas; label and position coincide (RangeIndex) in both.               *)
(***************************************************************************)
EXTENDS Integers, Sequences, FiniteSets, TLC

VARIABLES
    sales,              \* sales_df
    meta,               \* meta_df
    pc,                 \* the statement run_database.py is at
    i,                  \* the row the current loop is at
    unique_genres,      \* create_genre_table: unique_genres
    genre_table,        \* create_genre_table: final_genre_table
    genre_lookup,       \* build_movie_database: genre_lookup
    meta_lookup,        \* build_movie_database: meta_lookup
    processed_titles,   \* build_movie_database: processed_titles
    movie_id_counter,   \* build_movie_database: movie_id_counter
    final_movies,       \* build_movie_database: final_movies
    movie_lookup,       \* create_movie_lookup_from_sales: movie_lookup
    bo_processed_titles,\* create_movie_lookup_from_sales: processed_titles
    bo_movie_id_counter,\* create_movie_lookup_from_sales: movie_id_counter
    box_office_data,    \* create_box_office_performance_table: box_office_data
    performance_id,     \* create_box_office_performance_table: performance_id
    db,                 \* the SQL store: table name -> None (not written) or Some(rows)
    exc,                \* the exception that ended the run, "" while none has
    user_reviews_df,    \* user_reviews_df
    expert_reviews_df,  \* expert_reviews_df
    mode,               \* "script": run_database.py as written; "workers": one builder per worker
    running,            \* the builder the worker that holds the processor runs, "" if none
    stage,              \* builder -> "start", the statement its worker waits at, "done" or "raised"
    script_run          \* the store and the exception run_database.py ended with

vars == <<sales, meta, pc, i, unique_genres, genre_table, genre_lookup,
          meta_lookup, processed_titles, movie_id_counter, final_movies,
          movie_lookup, bo_processed_titles, bo_movie_id_counter,
          box_office_data, performance_id, db, exc,
          user_reviews_df, expert_reviews_df,
          mode, running, stage, script_run>>

\* the review datasets
reviews == <<user_reviews_df, expert_reviews_df>>

\* how the builders are scheduled
workers == <<mode, running, stage, script_run>>

(***************************************************************************)
(* Bounds of the checked input families.                                   *)
(***************************************************************************)
MaxSales == 3
MaxMeta == 3
MaxGenreSales == 2
MaxGenreMeta == 1
MaxFinRows == 1
MaxUserReviews == 3
MaxCountRows == 1
MaxExpertReviews == 3

(***************************************************************************)
(* Values and text.                                                        *)
(***************************************************************************)
NaN == <<>>
None == <<>>
Some(v) == <<v>>

notna(x) == x # NaN

Whitespace == {" "}

Digits == <<"0", "1", "2", "3", "4", "5", "6", "7", "8", "9">>

\* ord() of the characters the genre labels are written in
Ord(c) ==
    CASE c = " " -> 32
      [] c = "," -> 44
      [] c = "/" -> 47
      [] c = "A" -> 65
      [] c = "B" -> 66
      [] c = "C" -> 67

Contains(s, c) == \E k \in 1..Len(s) : s[k] = c

\* str.split(sep)
RECURSIVE Split(_, _)
Split(s, sep) ==
    IF ~Contains(s, sep)
    THEN <<s>>
    ELSE LET k == CHOOSE k \in 1..Len(s) :
                      s[k] = sep /\ \A j \in 1..(k - 1) : s[j] # sep
         IN  <<SubSeq(s, 1, k - 1)>> \o Split(SubSeq(s, k + 1, Len(s)), sep)

RECURSIVE LStrip(_)
LStrip(s) ==
    IF s # <<>> /\ Head(s) \in Whitespace THEN LStrip(Tail(s)) ELSE s

RECURSIVE RStrip(_)
RStrip(s) ==
    IF s # <<>> /\ s[Len(s)] \in Whitespace
    THEN RStrip(SubSeq(s, 1, Len(s) - 1))
    ELSE s

\* str.strip()
Strip(s) == RStrip(LStrip(s))

DigitValue(c) == CHOOSE d \in 0..9 : Digits[d + 1] = c

RECURSIVE DigitsValue(_)
DigitsValue(s) ==
    IF s = <<>> THEN 0
    ELSE 10 * DigitsValue(SubSeq(s, 1, Len(s) - 1)) + DigitValue(s[Len(s)])

\* int(text): Some(n), or None where int() raises ValueError
ParseInt(s) ==
    LET t == Strip(s)
    IN  IF t # <<>> /\ \A k \in 1..Len(t) : \E d \in 1..10 : Digits[d] = t[k]
        THEN Some(DigitsValue(t))
        ELSE None

\* str < str, by code point
RECURSIVE LexLess(_, _)
LexLess(a, b) ==
    IF b = <<>> THEN FALSE
    ELSE IF a = <<>> THEN TRUE
    ELSE IF Head(a) # Head(b) THEN Ord(Head(a)) < Ord(Head(b))
    ELSE LexLess(Tail(a), Tail(b))

\* sorted(set of str)
RECURSIVE sorted(_)
sorted(S) ==
    IF S = {} THEN <<>>
    ELSE LET m == CHOOSE x \in S : \A y \in S : x = y \/ LexLess(x, y)
         IN  <<m>> \o sorted(S \ {m})

Range(f) == {f[x] : x \in DOMAIN f}

\* d[k] = v on a dict
Put(d, k, v) == [x \in (DOMAIN d) \cup {k} |-> IF x = k THEN v ELSE d[x]]

EmptyDict == [x \in {} |-> 0]

(***************************************************************************)
(* builders/genre_builder.py                                               *)
(***************************************************************************)

\* variant: the slash tried before the comma
sales_genres_slash_first(genre_text) ==
    IF notna(genre_text) /\ Strip(genre_text) # <<>>
    THEN IF Contains(genre_text, "/")
         THEN {Strip(g) : g \in Range(Split(genre_text, "/"))}
         ELSE IF Contains(genre_text, ",")
         THEN {Strip(g) : g \in Range(Split(genre_text, ","))}
         ELSE {Strip(genre_text)}
    ELSE {}

\* the genres one sales row adds to unique_genres
SalesRowGenres(genre_text) ==
    IF notna(genre_text) /\ Strip(genre_text) # <<>>
    THEN IF Contains(genre_text, ",")
         THEN {Strip(g) : g \in Range(Split(genre_text, ","))}
         ELSE IF Contains(genre_text, "/")
         THEN {Strip(g) : g \in Range(Split(genre_text, "/"))}
         ELSE {Strip(genre_text)}
    ELSE {}

\* variant: the genre column of the metadata not scanned
meta_genres_ignored(genre_text) == {}

\* the genres one metadata row adds to unique_genres
MetaRowGenres(genre_text) ==
    IF notna(genre_text) /\ Strip(genre_text) # <<>>
    THEN IF Contains(genre_text, ",")
         THEN {Strip(g) : g \in Range(Split(genre_text, ","))}
         ELSE IF Contains(genre_text, "/")
         THEN {Strip(g) : g \in Range(Split(genre_text, "/"))}
         ELSE {Strip(genre_text)}
    ELSE {}

\* variant: the empty strings kept
keep_empty(genres) == genres

\* unique_genres = {genre for genre in unique_genres if genre}
DropEmpty(genres) == {genre \in genres : genre # <<>>}

\* enumerate(sorted(unique_genres), start=1) as GenreId/Name records
GenreTableData(genres) ==
    LET names == sorted(genres)
    IN  [genre_number \in 1..Len(names) |->
            [GenreId |-> genre_number, Name |-> names[genre_number]]]

\* variant: the labels numbered by their position from 0
genre_lookup_from_zero(table) ==
    [name \in {table[k].Name : k \in 1..Len(table)} |->
        (CHOOSE k \in 1..Len(table) : table[k].Name = name) - 1]

\* dict(zip(genre_table['Name'], genre_table['GenreId']))
GenreLookup(table) ==
    [name \in {table[k].Name : k \in 1..Len(table)} |->
        LET k == CHOOSE k \in 1..Len(table) :
                     table[k].Name = name
                     /\ \A j \in (k + 1)..Len(table) : table[j].Name # name
        IN  table[k].GenreId]

RECURSIVE ScanSales(_, _)
\* unique_genres after the first n cells of the sales genre column
ScanSales(cells, n) ==
    IF n = 0 THEN {}
    ELSE ScanSales(cells, n - 1) \cup SalesRowGenres(cells[n])

RECURSIVE ScanMeta(_, _, _)
\* unique_genres after the first n cells of the metadata genre column
ScanMeta(genres, cells, n) ==
    IF n = 0 THEN genres
    ELSE ScanMeta(genres, cells, n - 1) \cup MetaRowGenres(cells[n])

\* create_genre_table as a function of the two genre columns
create_genre_table(sales_cells, meta_cells) ==
    GenreTableData(
        DropEmpty(ScanMeta(ScanSales(sales_cells, Len(sales_cells)),
                           meta_cells, Len(meta_cells))))

GenreScanSales ==
    /\ pc = "genre_sales"
    /\ IF i <= Len(sales)
       THEN /\ unique_genres' = unique_genres \cup SalesRowGenres(sales[i].genre)
            /\ i' = i + 1
            /\ pc' = pc
       ELSE /\ pc' = "genre_meta"
            /\ i' = 1
            /\ UNCHANGED unique_genres
    /\ UNCHANGED <<sales, meta, genre_table, genre_lookup, meta_lookup,
                   processed_titles, movie_id_counter, final_movies,
                   movie_lookup, bo_processed_titles, bo_movie_id_counter,
                   box_office_data, performance_id, db, exc>>
    /\ UNCHANGED reviews
    /\ UNCHANGED workers

GenreScanMeta ==
    /\ pc = "genre_meta"
    /\ IF i <= Len(meta)
       THEN /\ unique_genres' = unique_genres \cup MetaRowGenres(meta[i].genre)
            /\ i' = i + 1
            /\ pc' = pc
       ELSE /\ pc' = "genre_write"
            /\ i' = 1
            /\ UNCHANGED unique_genres
    /\ UNCHANGED <<sales, meta, genre_table, genre_lookup, meta_lookup,
                   processed_titles, movie_id_counter, final_movies,
                   movie_lookup, bo_processed_titles, bo_movie_id_counter,
                   box_office_data, performance_id, db, exc>>
    /\ UNCHANGED reviews
    /\ UNCHANGED workers

\* the cleanup, the table and its write; create_genre_table returns
GenreWrite ==
    /\ pc = "genre_write"
    /\ unique_genres' = DropEmpty(unique_genres)
    /\ genre_table' = GenreTableData(unique_genres')
    /\ db' = [db EXCEPT !.genre = Some(genre_table')]
    /\ pc' = "genre_lookup"
    /\ UNCHANGED <<sales, meta, i, genre_lookup, meta_lookup,
                   processed_titles, movie_id_counter, final_movies,
                   movie_lookup, bo_processed_titles, bo_movie_id_counter,
                   box_office_data, performance_id, exc>>
    /\ UNCHANGED reviews
    /\ UNCHANGED workers

(***************************************************************************)
(* builders/movie_builder.py                                               *)
(***************************************************************************)

\* variant: the row tested for its normalized title
has_title_normalized(row) == notna(row.title_normalized)

\* pd.notna(row.get('title'))
has_title(row) == notna(row.title)

\* str(x) of a text cell inside an f-string
FormatCell(x) == IF notna(x) THEN x ELSE <<"n", "a", "n">>

\* the year column is float64 once one of its cells is NaN, int64 otherwise
YearIsFloat(df) == \E k \in 1..Len(df) : ~notna(df[k].year)

\* str(x) of a year cell inside an f-string
FormatYear(x, df) ==
    IF ~notna(x) THEN <<"n", "a", "n">>
    ELSE IF YearIsFloat(df) THEN x \o <<".", "0">>
    ELSE x

\* variant: the key built from the raw title as well
movie_key_with_title(sales_movie, df) ==
    FormatCell(sales_movie.title) \o <<"_">>
        \o FormatCell(sales_movie.title_normalized) \o <<"_">>
        \o FormatYear(sales_movie.year, df)

\* variant: the key built without the year
movie_key_without_year(sales_movie, df) ==
    FormatCell(sales_movie.title_normalized) \o <<"_">>

\* f"{sales_movie.get('title_normalized')}_{sales_movie.get('year')}"
movie_title_year_key(sales_movie, df) ==
    FormatCell(sales_movie.title_normalized) \o <<"_">>
        \o FormatYear(sales_movie.year, df)

\* the keys of the metadata lookup: the tuple (title, year) and the str title
TitleYear(title, year) == [title |-> title, year |-> Some(year)]
TitleOnly(title) == [title |-> title, year |-> None]

\* int(str(date).split('-')[0]) under try/except: None when it raises
RelDateYear(date) ==
    IF notna(date) THEN ParseInt(Split(date, "-")[1]) ELSE None

\* bool(year) of "if year:"
Truthy(year) == year # None /\ year # Some(0)

\* one iteration of the loop of create_metadata_lookup
MetadataLookupRow(lookup, row_num, movie) ==
    LET title == movie.title_normalized
        year == RelDateYear(movie.RelDate)
        with_year == IF Truthy(year)
                     THEN Put(lookup, TitleYear(title, year[1]), row_num)
                     ELSE lookup
    IN  IF notna(title)
        THEN Put(with_year, TitleOnly(title), row_num)
        ELSE lookup

RECURSIVE MetadataLookupUpTo(_, _)
MetadataLookupUpTo(meta_data, n) ==
    IF n = 0 THEN EmptyDict
    ELSE MetadataLookupRow(MetadataLookupUpTo(meta_data, n - 1), n, meta_data[n])

\* create_metadata_lookup(meta_data)
create_metadata_lookup(meta_data) == MetadataLookupUpTo(meta_data, Len(meta_data))

\* int(year) raises ValueError in find_metadata_match
MatchRaises(sales_movie) ==
    /\ notna(sales_movie.title_normalized)
    /\ notna(sales_movie.year)
    /\ ParseInt(sales_movie.year) = None

\* variant: the title-only entry tried before the exact one
match_title_first(sales_movie, lookup) ==
    LET title == sales_movie.title_normalized
        year == sales_movie.year
        exact_key == TitleYear(title, ParseInt(year)[1])
    IN  IF ~notna(title) THEN None
        ELSE IF TitleOnly(title) \in DOMAIN lookup
        THEN Some(lookup[TitleOnly(title)])
        ELSE IF notna(year) /\ exact_key \in DOMAIN lookup
        THEN Some(lookup[exact_key])
        ELSE None

\* find_metadata_match: Some(row label) or None
find_metadata_match(sales_movie, lookup) ==
    LET title == sales_movie.title_normalized
        year == sales_movie.year
        exact_key == TitleYear(title, ParseInt(year)[1])
    IN  IF ~notna(title) THEN None
        ELSE IF notna(year) /\ exact_key \in DOMAIN lookup
        THEN Some(lookup[exact_key])
        ELSE IF TitleOnly(title) \in DOMAIN lookup
        THEN Some(lookup[TitleOnly(title)])
        ELSE None

\* variant: a comma-separated text split on its slashes as well
merger_genres_split_both(genre_text) ==
    IF notna(genre_text) /\ Strip(genre_text) # <<>>
    THEN IF Contains(genre_text, ",")
         THEN UNION {{Strip(h) : h \in Range(Split(g, "/"))} :
                        g \in Range(Split(genre_text, ","))}
         ELSE IF Contains(genre_text, "/")
         THEN {Strip(g) : g \in Range(Split(genre_text, "/"))}
         ELSE {Strip(genre_text)}
    ELSE {}

\* the genres get_genre_ids collects from one of its two texts
MergerTextGenres(genre_text) ==
    IF notna(genre_text) /\ Strip(genre_text) # <<>>
    THEN IF Contains(genre_text, ",")
         THEN {Strip(g) : g \in Range(Split(genre_text, ","))}
         ELSE IF Contains(genre_text, "/")
         THEN {Strip(g) : g \in Range(Split(genre_text, "/"))}
         ELSE {Strip(genre_text)}
    ELSE {}

\* str(n) of a natural number
RECURSIVE IntText(_)
IntText(n) ==
    IF n < 10 THEN <<Digits[n + 1]>>
    ELSE IntText(n \div 10) \o <<Digits[(n % 10) + 1]>>

\* ','.join(map(str, ids))
RECURSIVE JoinIds(_)
JoinIds(ids) ==
    IF ids = <<>> THEN <<>>
    ELSE IF Len(ids) = 1 THEN IntText(ids[1])
    ELSE IntText(ids[1]) \o <<",">> \o JoinIds(Tail(ids))

\* the orders in which iterating a set of str may yield its members
IterationOrders(S) ==
    {order \in [1..Cardinality(S) -> S] :
        \A a, b \in 1..Cardinality(S) : a # b => order[a] # order[b]}

\* variant: the IDs of the two texts listed one text after the other, an ID
\* of both texts twice
genre_ids_per_text(sales_genre, meta_genre, lookup) ==
    LET known(text) == {g \in MergerTextGenres(text) : g \in DOMAIN lookup}
        listed == {a \o b : a \in IterationOrders(known(sales_genre)),
                            b \in IterationOrders(known(meta_genre))}
    IN  IF \A order \in listed : order = <<>> THEN {None}
        ELSE {Some(JoinIds([k \in 1..Len(order) |-> lookup[order[k]]])) :
                 order \in listed}

\* get_genre_ids: the values it may return, one per iteration order of all_genres
get_genre_ids(sales_genre, meta_genre, lookup) ==
    LET all_genres == MergerTextGenres(sales_genre) \cup MergerTextGenres(meta_genre)
        known == {g \in all_genres : g \in DOMAIN lookup}
    IN  IF known = {} THEN {None}
        ELSE {Some(JoinIds([k \in 1..Len(order) |-> lookup[order[k]]])) :
                 order \in IterationOrders(known)}

\* the movie dict of combine_data: the sales fields
primary_fields(sales_movie, movie_id) ==
    [movie_id |-> movie_id,
     title |-> sales_movie.title,
     title_normalized |-> sales_movie.title_normalized,
     runtime |-> sales_movie.runtime,
     release_year |-> sales_movie.year,
     release_date |-> sales_movie.release_date,
     metacritic_url |-> sales_movie.url]

\* the fields movie.update() takes from the matched metadata row
secondary_fields(metadata) ==
    [director |-> metadata.director,
     studio |-> metadata.studio,
     rating |-> metadata.rating,
     critic_score |-> metadata.metascore,
     user_score |-> metadata.userscore,
     cast |-> metadata.cast,
     summary |-> metadata.summary,
     awards |-> metadata.awards]

\* the fields movie.update() sets when no metadata row matched
no_secondary_fields ==
    [director |-> None, studio |-> None, rating |-> None,
     critic_score |-> None, user_score |-> None, cast |-> None,
     summary |-> None, awards |-> None]

\* the finished movie dict
movie_record(primary, secondary, genre_ids) ==
    [movie_id |-> primary.movie_id,
     title |-> primary.title,
     title_normalized |-> primary.title_normalized,
     runtime |-> primary.runtime,
     release_year |-> primary.release_year,
     release_date |-> primary.release_date,
     metacritic_url |-> primary.metacritic_url,
     director |-> secondary.director,
     studio |-> secondary.studio,
     rating |-> secondary.rating,
     critic_score |-> secondary.critic_score,
     user_score |-> secondary.user_score,
     cast |-> secondary.cast,
     summary |-> secondary.summary,
     awards |-> secondary.awards,
     genre_ids |-> genre_ids]

\* variant: the fields after the director read from the last metadata row
combine_data_last_row(sales_movie, meta_row, meta_data, lookup, movie_id) ==
    IF meta_row # None
    THEN LET metadata == meta_data[meta_row[1]]
             last == meta_data[Len(meta_data)]
         IN  {movie_record(primary_fields(sales_movie, movie_id),
                           [secondary_fields(last) EXCEPT
                               !.director = metadata.director],
                           ids) :
                 ids \in get_genre_ids(sales_movie.genre, metadata.genre, lookup)}
    ELSE {movie_record(primary_fields(sales_movie, movie_id),
                       no_secondary_fields, ids) :
             ids \in get_genre_ids(sales_movie.genre, NaN, lookup)}

\* combine_data: the records it may return
combine_data(sales_movie, meta_row, meta_data, lookup, movie_id) ==
    IF meta_row # None
    THEN LET metadata == meta_data[meta_row[1]]
         IN  {movie_record(primary_fields(sales_movie, movie_id),
                           secondary_fields(metadata), ids) :
                 ids \in get_genre_ids(sales_movie.genre, metadata.genre, lookup)}
    ELSE {movie_record(primary_fields(sales_movie, movie_id),
                       no_secondary_fields, ids) :
             ids \in get_genre_ids(sales_movie.genre, NaN, lookup)}

\* dict(zip(...)) of build_movie_database; an empty genre table has no columns
BuildGenreLookup ==
    /\ pc = "genre_lookup"
    /\ IF genre_table = <<>>
       THEN /\ pc' = "raised"
            /\ exc' = "KeyError: 'Name'"
            /\ UNCHANGED genre_lookup
       ELSE /\ genre_lookup' = GenreLookup(genre_table)
            /\ pc' = "meta_lookup"
            /\ UNCHANGED exc
    /\ UNCHANGED <<sales, meta, i, unique_genres, genre_table, meta_lookup,
                   processed_titles, movie_id_counter, final_movies,
                   movie_lookup, bo_processed_titles, bo_movie_id_counter,
                   box_office_data, performance_id, db>>
    /\ UNCHANGED reviews
    /\ UNCHANGED workers

\* the loop of create_metadata_lookup
MetadataLookupStep ==
    /\ pc = "meta_lookup"
    /\ IF i <= Len(meta)
       THEN /\ meta_lookup' = MetadataLookupRow(meta_lookup, i, meta[i])
            /\ i' = i + 1
            /\ pc' = pc
       ELSE /\ pc' = "movie_loop"
            /\ i' = 1
            /\ UNCHANGED meta_lookup
    /\ UNCHANGED <<sales, meta, unique_genres, genre_table, genre_lookup,
                   processed_titles, movie_id_counter, final_movies,
                   movie_lookup, bo_processed_titles, bo_movie_id_counter,
                   box_office_data, performance_id, db, exc>>
    /\ UNCHANGED reviews
    /\ UNCHANGED workers

\* variant: the new record put before the others
insert_first(movies, complete_movie) == <<complete_movie>> \o movies

\* final_movies.append(complete_movie)
append(movies, complete_movie) == Append(movies, complete_movie)

\* the loop of build_movie_database over the sales rows
MovieStep ==
    /\ pc = "movie_loop"
    /\ IF i > Len(sales)
       THEN /\ pc' = "movie_write"
            /\ i' = 1
            /\ UNCHANGED <<processed_titles, movie_id_counter, final_movies, exc>>
       ELSE LET sales_movie == sales[i]
                key == movie_title_year_key(sales_movie, sales)
            IN  IF ~has_title(sales_movie) \/ key \in processed_titles
                THEN /\ i' = i + 1
                     /\ UNCHANGED <<pc, processed_titles, movie_id_counter,
                                    final_movies, exc>>
                ELSE /\ processed_titles' = processed_titles \cup {key}
                     /\ IF MatchRaises(sales_movie)
                        THEN /\ pc' = "raised"
                             /\ exc' = "ValueError: int()"
                             /\ UNCHANGED <<i, movie_id_counter, final_movies>>
                        ELSE /\ \E complete_movie \in
                                    combine_data(sales_movie,
                                                 find_metadata_match(sales_movie, meta_lookup),
                                                 meta, genre_lookup, movie_id_counter) :
                                    final_movies' = append(final_movies, complete_movie)
                             /\ movie_id_counter' = movie_id_counter + 1
                             /\ i' = i + 1
                             /\ UNCHANGED <<pc, exc>>
    /\ UNCHANGED <<sales, meta, unique_genres, genre_table, genre_lookup,
                   meta_lookup, movie_lookup, bo_processed_titles,
                   bo_movie_id_counter, box_office_data, performance_id, db>>
    /\ UNCHANGED reviews
    /\ UNCHANGED workers

\* movies_df.to_sql('movie', ...)
MovieWrite ==
    /\ pc = "movie_write"
    /\ db' = [db EXCEPT !.movie = Some(final_movies)]
    /\ pc' = "users"
    /\ UNCHANGED <<sales, meta, i, unique_genres, genre_table, genre_lookup,
                   meta_lookup, processed_titles, movie_id_counter, final_movies,
                   movie_lookup, bo_processed_titles, bo_movie_id_counter,
                   box_office_data, performance_id, exc>>
    /\ UNCHANGED reviews
    /\ UNCHANGED workers

(***************************************************************************)
(* builders/user_builder.py                                                *)
(***************************************************************************)

Anonymous == <<"A", "n", "o", "n", "y", "m", "o", "u", "s">>

\* Series.fillna(value), one cell
fillna(x, value) == IF notna(x) THEN x ELSE value

\* Series.unique(): the values in order of first appearance
RECURSIVE unique(_)
unique(column) ==
    IF column = <<>> THEN <<>>
    ELSE LET before == unique(SubSeq(column, 1, Len(column) - 1))
             last == column[Len(column)]
         IN  IF last \in Range(before) THEN before ELSE Append(before, last)

\* Series.dropna()
RECURSIVE dropna(_)
dropna(column) ==
    IF column = <<>> THEN <<>>
    ELSE IF notna(Head(column)) THEN <<Head(column)>> \o dropna(Tail(column))
    ELSE dropna(Tail(column))

\* df['reviewer']
ReviewerColumn(df) == [k \in 1..Len(df) |-> df[k].reviewer]

\* variant: the missing names left out, as the expert builder does
user_reviewers_dropna(df) == unique(dropna(ReviewerColumn(df)))

\* user_reviews_df['reviewer'].fillna('Anonymous').unique()
user_unique_reviewers(df) ==
    unique([k \in 1..Len(df) |-> fillna(df[k].reviewer, Anonymous)])

\* variant: the numbering from 0, range(len(unique_reviewers))
zip_ids_from_zero(names) ==
    [name \in Range(names) |->
        (CHOOSE k \in 1..Len(names) : names[k] = name) - 1]

\* dict(zip(unique_reviewers, range(1, len(unique_reviewers) + 1)))
ZipIds(names) ==
    [name \in Range(names) |-> CHOOSE k \in 1..Len(names) : names[k] = name]

\* the users_df of create_user_table
users_table(df) ==
    LET unique_reviewers == user_unique_reviewers(df)
    IN  [k \in 1..Len(unique_reviewers) |->
            [user_id |-> k, reviewer |-> unique_reviewers[k]]]

\* create_user_table
CreateUserTable ==
    /\ pc = "users"
    /\ db' = [db EXCEPT !.users = Some(users_table(user_reviews_df))]
    /\ pc' = "user_reviews"
    /\ UNCHANGED <<sales, meta, i, unique_genres, genre_table, genre_lookup,
                   meta_lookup, processed_titles, movie_id_counter, final_movies,
                   movie_lookup, bo_processed_titles, bo_movie_id_counter,
                   box_office_data, performance_id, exc, reviews>>
    /\ UNCHANGED workers

\* a float: not a number, infinite, or finite with the whole part and the
\* digits after the point
NotANumber == [kind |-> "nan", whole |-> 0, fraction |-> <<>>]
Infinite == [kind |-> "inf", whole |-> 0, fraction |-> <<>>]
Finite(whole, fraction) == [kind |-> "finite", whole |-> whole, fraction |-> fraction]

IsDigits(t) == t # <<>> /\ \A k \in 1..Len(t) : \E d \in 1..10 : Digits[d] = t[k]

\* pd.to_numeric(cell, errors='coerce')
to_numeric(x) ==
    LET t == Strip(x)
        parts == Split(t, ".")
    IN  IF ~notna(x) THEN NotANumber
        ELSE IF IsDigits(t) THEN Finite(DigitsValue(t), <<>>)
        ELSE IF Len(parts) = 2 /\ IsDigits(parts[1]) /\ IsDigits(parts[2])
        THEN Finite(DigitsValue(parts[1]), parts[2])
        ELSE IF t = <<"i", "n", "f">> THEN Infinite
        ELSE NotANumber

\* .fillna(0) of a float
fillna_zero(v) == IF v.kind = "nan" THEN Finite(0, <<>>) ELSE v

\* .astype(int) raises on a value that is not finite
AstypeIntRaises(column) == \E k \in 1..Len(column) : column[k].kind # "finite"

\* .astype(int) of a finite float: the fraction is cut off
astype_int(v) == v.whole

\* pd.to_numeric(column, errors='coerce').fillna(0), before .astype(int)
CleanFloats(df, field) ==
    [k \in 1..Len(df) |-> fillna_zero(to_numeric(df[k][field]))]

\* user_reviews_df['user_id'] = user_reviews_df['reviewer'].fillna('Anonymous').map(user_map)
WithUserId(df) ==
    LET user_map == ZipIds(user_unique_reviewers(df))
        name(k) == fillna(df[k].reviewer, Anonymous)
    IN  [k \in 1..Len(df) |->
            [df[k] EXCEPT !.user_id =
                IF name(k) \in DOMAIN user_map THEN Some(user_map[name(k)])
                ELSE None]]

\* the user_reviews_clean of create_user_reviews_table; df has its user_id column
user_reviews_table(df) ==
    [k \in 1..Len(df) |->
        [user_review_id |-> k,
         review_text |-> fillna(df[k].Rev, <<>>),
         review_score |-> df[k].idvscore,
         thumbs_up |-> astype_int(CleanFloats(df, "thumbsUp")[k]),
         total_score |-> astype_int(CleanFloats(df, "thumbsTot")[k]),
         word_count |-> astype_int(CleanFloats(df, "WC")[k]),
         emotional_tone |-> df[k].Tone,
         user_id |-> df[k].user_id]]

\* create_user_reviews_table
CreateUserReviewsTable ==
    /\ pc = "user_reviews"
    /\ user_reviews_df' = WithUserId(user_reviews_df)
    /\ IF \E field \in {"thumbsUp", "thumbsTot", "WC"} :
              AstypeIntRaises(CleanFloats(user_reviews_df, field))
       THEN /\ pc' = "raised"
            /\ exc' = "IntCastingNaNError"
            /\ UNCHANGED db
       ELSE /\ db' = [db EXCEPT !.user_reviews =
                         Some(user_reviews_table(user_reviews_df'))]
            /\ pc' = "experts"
            /\ UNCHANGED exc
    /\ UNCHANGED <<sales, meta, i, unique_genres, genre_table, genre_lookup,
                   meta_lookup, processed_titles, movie_id_counter, final_movies,
                   movie_lookup, bo_processed_titles, bo_movie_id_counter,
                   box_office_data, performance_id, expert_reviews_df>>
    /\ UNCHANGED workers

(***************************************************************************)
(* builders/expert_builder.py                                              *)
(* The two averages of an expert record and the LIWC columns of a review   *)
(* record are copies and means of columns nothing else reads; the records  *)
(* here carry the other fields.                                            *)
(***************************************************************************)

\* expert_reviews_df['reviewer'].dropna().unique()
expert_unique_reviewers(df) == unique(dropna(ReviewerColumn(df)))

\* variant: the experts numbered from the name seen last
experts_table_last_first(df) ==
    LET seen == expert_unique_reviewers(df)
        unique_reviewers == [k \in 1..Len(seen) |-> seen[Len(seen) + 1 - k]]
    IN  [k \in 1..Len(unique_reviewers) |->
            [ExpertId |-> k,
             ReviewerName |-> unique_reviewers[k],
             TotalReviews |->
                 Cardinality({n \in 1..Len(df) :
                                 df[n].reviewer = unique_reviewers[k]})]]

\* the experts_data of create_expert_table
experts_table(df) ==
    LET unique_reviewers == expert_unique_reviewers(df)
    IN  [k \in 1..Len(unique_reviewers) |->
            [ExpertId |-> k,
             ReviewerName |-> unique_reviewers[k],
             TotalReviews |->
                 Cardinality({n \in 1..Len(df) :
                                 df[n].reviewer = unique_reviewers[k]})]]

\* create_expert_table
CreateExpertTable ==
    /\ pc = "experts"
    /\ db' = [db EXCEPT !.experts = Some(experts_table(expert_reviews_df))]
    /\ pc' = "expert_reviews"
    /\ UNCHANGED <<sales, meta, i, unique_genres, genre_table, genre_lookup,
                   meta_lookup, processed_titles, movie_id_counter, final_movies,
                   movie_lookup, bo_processed_titles, bo_movie_id_counter,
                   box_office_data, performance_id, exc, reviews>>
    /\ UNCHANGED workers

\* the review_record of one row of expert_reviews_df
expert_review_record(review, review_id, reviewer_to_id) ==
    [ReviewId |-> review_id,
     ExpertId |-> IF notna(review.reviewer) /\ review.reviewer \in DOMAIN reviewer_to_id
                  THEN Some(reviewer_to_id[review.reviewer])
                  ELSE None,
     MovieUrl |-> review.url,
     ReviewScore |-> review.idvscore,
     ReviewDate |-> review.dateP,
     ReviewText |-> review.Rev,
     WordCount |-> review.WC]

\* variant: the rows without a reviewer name left out of reviews_data
expert_reviews_named_only(df) ==
    LET reviewer_to_id == ZipIds(expert_unique_reviewers(df))
        named == {k \in 1..Len(df) : notna(df[k].reviewer)}
        nth(n) == CHOOSE k \in named : Cardinality({h \in named : h <= k}) = n
    IN  [n \in 1..Cardinality(named) |->
            expert_review_record(df[nth(n)], n, reviewer_to_id)]

\* the reviews_data of create_expert_reviews_table
expert_reviews_data(df) ==
    LET reviewer_to_id == ZipIds(expert_unique_reviewers(df))
    IN  [k \in 1..Len(df) |-> expert_review_record(df[k], k, reviewer_to_id)]

\* create_expert_reviews_table
CreateExpertReviewsTable ==
    /\ pc = "expert_reviews"
    /\ db' = [db EXCEPT !.expert_reviews =
                 Some(expert_reviews_data(expert_reviews_df))]
    /\ pc' = "bo_lookup"
    /\ UNCHANGED <<sales, meta, i, unique_genres, genre_table, genre_lookup,
                   meta_lookup, processed_titles, movie_id_counter, final_movies,
                   movie_lookup, bo_processed_titles, bo_movie_id_counter,
                   box_office_data, performance_id, exc, reviews>>
    /\ UNCHANGED workers

(***************************************************************************)
(* builders/boxoffice_builder.py                                           *)
(***************************************************************************)

FinFields == {"worldwide_box_office", "domestic_box_office",
              "international_box_office", "production_budget",
              "opening_weekend", "theatre_count"}

\* read_csv gives a column a numeric dtype when every cell is a number or empty
IsNumericColumn(df, field) ==
    \A k \in 1..Len(df) :
        notna(df[k].fin[field]) => ParseInt(df[k].fin[field]) # None

\* row.get(field, 0) or 0: only a numeric zero is falsy (NaN and a non-empty
\* str are truthy), and the value is kept otherwise
or_zero(x, numeric) ==
    IF numeric /\ notna(x) /\ ParseInt(x) = Some(0) THEN <<"0">> ELSE x

\* variant: the box-office key built without the year
lookup_key_without_year(row, df) ==
    FormatCell(row.title_normalized) \o <<"_">>

\* f"{row.get('title_normalized')}_{row.get('year')}" of create_movie_lookup_from_sales
lookup_title_year_key(row, df) ==
    FormatCell(row.title_normalized) \o <<"_">> \o FormatYear(row.year, df)

\* f"{row.get('title_normalized')}_{row.get('year')}" of create_box_office_performance_table
record_title_year_key(row, df) ==
    FormatCell(row.title_normalized) \o <<"_">> \o FormatYear(row.year, df)

\* the loop of create_movie_lookup_from_sales
MovieLookupStep ==
    /\ pc = "bo_lookup"
    /\ IF i > Len(sales)
       THEN /\ pc' = "bo_loop"
            /\ i' = 1
            /\ UNCHANGED <<movie_lookup, bo_processed_titles, bo_movie_id_counter>>
       ELSE LET row == sales[i]
                key == lookup_title_year_key(row, sales)
            IN  /\ i' = i + 1
                /\ pc' = pc
                /\ IF ~has_title(row) \/ key \in bo_processed_titles
                   THEN UNCHANGED <<movie_lookup, bo_processed_titles,
                                    bo_movie_id_counter>>
                   ELSE /\ bo_processed_titles' = bo_processed_titles \cup {key}
                        /\ movie_lookup' = Put(movie_lookup, key, bo_movie_id_counter)
                        /\ bo_movie_id_counter' = bo_movie_id_counter + 1
    /\ UNCHANGED <<sales, meta, unique_genres, genre_table, genre_lookup,
                   meta_lookup, processed_titles, movie_id_counter, final_movies,
                   box_office_data, performance_id, db, exc>>
    /\ UNCHANGED reviews
    /\ UNCHANGED workers

\* the box_office_record of one sales row
box_office_record(row, df, id, lookup) ==
    [performance_id |-> id,
     movie_id |-> lookup[record_title_year_key(row, df)],
     fin |-> [f \in FinFields |-> or_zero(row.fin[f], IsNumericColumn(df, f))]]

\* the second loop of create_box_office_performance_table
BoxOfficeStep ==
    /\ pc = "bo_loop"
    /\ IF i > Len(sales)
       THEN /\ pc' = "bo_write"
            /\ i' = 1
            /\ UNCHANGED <<box_office_data, performance_id>>
       ELSE LET row == sales[i]
                key == record_title_year_key(row, sales)
            IN  /\ i' = i + 1
                /\ pc' = pc
                /\ IF ~has_title(row) \/ key \notin DOMAIN movie_lookup
                   THEN UNCHANGED <<box_office_data, performance_id>>
                   ELSE /\ box_office_data' =
                               Append(box_office_data,
                                      box_office_record(row, sales, performance_id,
                                                        movie_lookup))
                        /\ performance_id' = performance_id + 1
    /\ UNCHANGED <<sales, meta, unique_genres, genre_table, genre_lookup,
                   meta_lookup, processed_titles, movie_id_counter, final_movies,
                   movie_lookup, bo_processed_titles, bo_movie_id_counter, db, exc>>
    /\ UNCHANGED reviews
    /\ UNCHANGED workers

\* box_office_performance.to_sql('box_office_performance', ...)
BoxOfficeWrite ==
    /\ pc = "bo_write"
    /\ db' = [db EXCEPT !.box_office_performance = Some(box_office_data)]
    /\ pc' = "bo_report"
    /\ UNCHANGED <<sales, meta, i, unique_genres, genre_table, genre_lookup,
                   meta_lookup, processed_titles, movie_id_counter, final_movies,
                   movie_lookup, bo_processed_titles, bo_movie_id_counter,
                   box_office_data, performance_id, exc>>
    /\ UNCHANGED reviews
    /\ UNCHANGED workers

\* max(box_office_performance['movie_id']): a frame of no rows has no columns
BoxOfficeReport ==
    /\ pc = "bo_report"
    /\ IF box_office_data = <<>>
       THEN /\ pc' = "raised"
            /\ exc' = "KeyError: 'movie_id'"
       ELSE /\ pc' = "done"
            /\ UNCHANGED exc
    /\ UNCHANGED <<sales, meta, i, unique_genres, genre_table, genre_lookup,
                   meta_lookup, processed_titles, movie_id_counter, final_movies,
                   movie_lookup, bo_processed_titles, bo_movie_id_counter,
                   box_office_data, performance_id, db>>
    /\ UNCHANGED reviews
    /\ UNCHANGED workers

(***************************************************************************)
(* run_database.py: the datasets it loads and the order of its calls.      *)
(* The checked datasets are six families; each varies the columns one      *)
(* part of the pipeline reads and holds the other columns fixed.           *)
(***************************************************************************)

SeqsUpTo(S, n) == UNION {[1..k -> S] : k \in 0..n}

\* k times the character c: a text that differs from row to row
Repeat(c, k) == [j \in 1..k |-> c]

Year2010 == <<"2", "0", "1", "0">>
Year2011 == <<"2", "0", "1", "1">>
Date2010 == <<"2", "0", "1", "0", "-", "0", "6", "-", "0", "1">>
Date2011 == <<"2", "0", "1", "1", "-", "0", "6", "-", "0", "1">>

\* a year and a date that int() does not parse
YearText == <<"x">>
DateText == <<"x", "-", "0", "6", "-", "0", "1">>

GenreCells ==
    { NaN,
      <<" ">>,
      <<"B">>,
      <<"A", ",", " ", "B", "/", "C">>,
      <<"/", " ", "C">> }

\* the genre cells of the metadata rows
MetaGenreCells ==
    { NaN,
      <<"B">>,
      <<"A", ",", " ", "B", "/", "C">>,
      <<"C", "/", "A">> }

\* "N/D": a text read_csv does not take for a missing value
FinCells == {NaN, <<"0">>, <<"1", "0", "0">>, <<"N", "/", "D">>}

DefaultFin == [f \in FinFields |-> <<"1", "0", "0">>]

\* a financial row: one value in every field, or one field that differs
FinRows ==
    {[f \in FinFields |-> v] : v \in FinCells}
        \cup {[f \in FinFields |-> IF f = g THEN v ELSE <<"1", "0", "0">>] :
                 g \in FinFields, v \in FinCells}

\* metadata row k: the columns no part of the pipeline tests hold k letters
MetaRow(k, title_normalized, RelDate, genre) ==
    [title_normalized |-> title_normalized, RelDate |-> RelDate,
     genre |-> genre,
     director |-> Repeat("d", k), studio |-> Repeat("s", k),
     rating |-> Repeat("r", k), metascore |-> Repeat("m", k),
     userscore |-> Repeat("u", k), cast |-> Repeat("c", k),
     summary |-> Repeat("y", k), awards |-> Repeat("w", k)]

DefaultMeta == << MetaRow(1, <<"a">>, Date2010, <<"B">>) >>

\* a metadata row with the genre label of the sales rows: one label in all,
\* so that no table depends on the iteration order of a set
SingleLabelMeta == << MetaRow(1, <<"a">>, Date2010, <<"A">>) >>

\* a sales row: the columns no part of the pipeline tests are named after
\* the row's title and title_normalized
SalesRow(title, title_normalized, year, genre, fin) ==
    [title |-> title, title_normalized |-> title_normalized, year |-> year,
     genre |-> genre, fin |-> fin,
     runtime |-> <<"r">> \o title \o title_normalized,
     release_date |-> <<"e">> \o title \o title_normalized,
     url |-> <<"l">> \o title \o title_normalized]

\* the resolver's columns: title, title_normalized, year
ResolverRows ==
    {SalesRow(NaN, <<"a">>, Year2010, <<"A">>, DefaultFin)}
        \cup {SalesRow(t, <<"a">>, y, <<"A">>, DefaultFin) :
                 t \in {<<"T">>, <<"U">>}, y \in {Year2010, NaN}}
        \cup {SalesRow(<<"T">>, tn, Year2010, <<"A">>, DefaultFin) :
                 tn \in {<<"b">>, NaN}}

ResolverSales == SeqsUpTo(ResolverRows, MaxSales)

\* the matcher's columns: one sales row against the metadata rows
MatchSales ==
    {<<SalesRow(<<"T">>, p[1], p[2], <<"A">>, DefaultFin)>> :
        p \in {<<(<<"a">>), Year2010>>, <<(<<"a">>), NaN>>, <<NaN, Year2010>>,
               <<(<<"a">>), YearText>>}}

MatchMetaCells ==
    {<<(<<"a">>), NaN>>, <<(<<"a">>), Date2010>>, <<(<<"a">>), Date2011>>,
     <<(<<"b">>), DateText>>, <<NaN, Date2010>>}

MatchMeta ==
    UNION {{[k \in 1..n |-> MetaRow(k, c[k][1], c[k][2], <<"B">>)] :
               c \in [1..n -> MatchMetaCells]} :
           n \in 0..MaxMeta}

\* the genre columns of both datasets; row k of each has the title k times "a"
GenreSales ==
    UNION {{[k \in 1..n |-> SalesRow(<<"T">>, Repeat("a", k), Year2010,
                                     c[k], DefaultFin)] :
               c \in [1..n -> GenreCells]} :
           n \in 0..MaxGenreSales}

GenreMeta ==
    UNION {{[k \in 1..n |-> MetaRow(k, Repeat("a", k), NaN, c[k])] :
               c \in [1..n -> MetaGenreCells]} :
           n \in 0..MaxGenreMeta}

\* the financial columns
FinSales ==
    UNION {{[k \in 1..n |-> SalesRow(<<"T">>, Repeat("a", k), Year2010,
                                     <<"A">>, c[k])] :
               c \in [1..n -> FinRows]} :
           n \in 0..MaxFinRows}

DefaultSales ==
    << SalesRow(<<"T">>, <<"a">>, Year2010, <<"A">>, DefaultFin) >>

\* a row of the user reviews; user_id is None while the frame has no such column
UserRow(k, reviewer, thumbsUp, thumbsTot, WC) ==
    [reviewer |-> reviewer, Rev |-> Repeat("v", k), idvscore |-> Repeat("7", k),
     thumbsUp |-> thumbsUp, thumbsTot |-> thumbsTot, WC |-> WC,
     Tone |-> Repeat("t", k), user_id |-> None]

ReviewerCells == {NaN, <<"x">>, <<"y">>, Anonymous}

\* "N/D": a text read_csv does not take for a missing value
CountCells == {NaN, <<"3">>, <<"2", ".", "5">>, <<"N", "/", "D">>, <<"i", "n", "f">>}

\* the three counts of a user review: one value in every column, or one
\* column that differs
CountRows ==
    {<<v, v, v>> : v \in CountCells}
        \cup {[g \in 1..3 |-> IF g = col THEN v ELSE <<"3">>] :
                 col \in 1..3, v \in CountCells}

\* the reviewer column of the user reviews
ReviewerUserReviews ==
    UNION {{[k \in 1..n |-> UserRow(k, c[k], <<"3">>, <<"4">>, <<"5">>)] :
               c \in [1..n -> ReviewerCells]} :
           n \in 0..MaxUserReviews}

\* the count columns of the user reviews
CountUserReviews ==
    UNION {{[k \in 1..n |-> UserRow(k, <<"x">>, c[k][1], c[k][2], c[k][3])] :
               c \in [1..n -> CountRows]} :
           n \in 0..MaxCountRows}

ExpertRow(k, reviewer) ==
    [reviewer |-> reviewer, url |-> Repeat("l", k), idvscore |-> Repeat("7", k),
     dateP |-> Repeat("p", k), Rev |-> Repeat("v", k), WC |-> Repeat("9", k)]

\* the reviewer column of the expert reviews
ExpertReviews ==
    UNION {{[k \in 1..n |-> ExpertRow(k, c[k])] :
               c \in [1..n -> {NaN, <<"x">>, <<"y">>}]} :
           n \in 0..MaxExpertReviews}

\* (sales, metadata, user reviews, expert reviews)
Datasets ==
    (ResolverSales \X {SingleLabelMeta} \X {<<>>} \X {<<>>})
        \cup (MatchSales \X MatchMeta \X {<<>>} \X {<<>>})
        \cup (GenreSales \X GenreMeta \X {<<>>} \X {<<>>})
        \cup (FinSales \X {DefaultMeta} \X {<<>>} \X {<<>>})
        \cup ({DefaultSales} \X {DefaultMeta}
                 \X (ReviewerUserReviews \cup CountUserReviews) \X {<<>>})
        \cup ({DefaultSales} \X {DefaultMeta} \X {<<>>} \X ExpertReviews)

\* the store before any table is written
NoTables ==
    [genre |-> None, movie |-> None, users |-> None,
     user_reviews |-> None, experts |-> None, expert_reviews |-> None,
     box_office_performance |-> None]

\* the builder calls of run_database.py
Builders ==
    {"movie", "users", "user_reviews", "experts", "expert_reviews", "box_office"}

\* where a worker is: at a statement, and at a row of that statement's loop
At(statement, row) == [at |-> statement, row |-> row]

\* the state once run_database.py has loaded one of the datasets
InitWith(datasets) ==
    /\ \E d \in datasets :
           /\ sales = d[1]
           /\ meta = d[2]
           /\ user_reviews_df = d[3]
           /\ expert_reviews_df = d[4]
    /\ pc = "genre_sales"
    /\ i = 1
    /\ unique_genres = {}
    /\ genre_table = <<>>
    /\ genre_lookup = EmptyDict
    /\ meta_lookup = EmptyDict
    /\ processed_titles = {}
    /\ movie_id_counter = 1
    /\ final_movies = <<>>
    /\ movie_lookup = EmptyDict
    /\ bo_processed_titles = {}
    /\ bo_movie_id_counter = 1
    /\ box_office_data = <<>>
    /\ performance_id = 1
    /\ db = NoTables
    /\ exc = ""
    /\ mode = "script"
    /\ running = ""
    /\ stage = [b \in Builders |-> At("start", 1)]
    /\ script_run = [db |-> NoTables, exc |-> ""]

Init == InitWith(Datasets)

Next ==
    \/ GenreScanSales
    \/ GenreScanMeta
    \/ GenreWrite
    \/ BuildGenreLookup
    \/ MetadataLookupStep
    \/ MovieStep
    \/ MovieWrite
    \/ CreateUserTable
    \/ CreateUserReviewsTable
    \/ CreateExpertTable
    \/ CreateExpertReviewsTable
    \/ MovieLookupStep
    \/ BoxOfficeStep
    \/ BoxOfficeWrite
    \/ BoxOfficeReport

Spec == Init /\ [][Next]_vars

(***************************************************************************)
(* The store failing: to_sql raises (connection lost, disk full), and      *)
(* nothing in the builders or in run_database.py catches it.               *)
(***************************************************************************)

\* the tables in the order run_database.py writes them
WriteOrder ==
    <<"genre", "movie", "users", "user_reviews", "experts", "expert_reviews",
      "box_office_performance">>

\* the table the statement at pc writes next
TableAt(at) ==
    CASE at = "genre_write" -> "genre"
      [] at = "movie_write" -> "movie"
      [] at = "users" -> "users"
      [] at = "user_reviews" -> "user_reviews"
      [] at = "experts" -> "experts"
      [] at = "expert_reviews" -> "expert_reviews"
      [] at = "bo_write" -> "box_office_performance"

\* the exception of a to_sql that failed
WriteError(table) ==
    CASE table = "genre" -> "OperationalError: genre"
      [] table = "movie" -> "OperationalError: movie"
      [] table = "users" -> "OperationalError: users"
      [] table = "user_reviews" -> "OperationalError: user_reviews"
      [] table = "experts" -> "OperationalError: experts"
      [] table = "expert_reviews" -> "OperationalError: expert_reviews"
      [] table = "box_office_performance" -> "OperationalError: box_office_performance"

\* create_user_reviews_table gets as far as its to_sql
ReachesUserReviewsWrite ==
    \A field \in {"thumbsUp", "thumbsTot", "WC"} :
        ~AstypeIntRaises(CleanFloats(user_reviews_df, field))

\* variant: the failure caught and the run carried on with the next builder
WriteFailsSwallowed ==
    /\ pc \in {"movie_write", "users", "experts"}
    /\ exc' = WriteError(TableAt(pc))
    /\ pc' = CASE pc = "movie_write" -> "users"
              [] pc = "users" -> "user_reviews"
              [] pc = "experts" -> "expert_reviews"
    /\ UNCHANGED <<sales, meta, i, unique_genres, genre_table, genre_lookup,
                   meta_lookup, processed_titles, movie_id_counter, final_movies,
                   movie_lookup, bo_processed_titles, bo_movie_id_counter,
                   box_office_data, performance_id, db, reviews>>
    /\ UNCHANGED workers

\* the to_sql the run is at raises; the exception ends the run
WriteFails ==
    /\ pc \in {"genre_write", "movie_write", "users", "user_reviews",
               "experts", "expert_reviews", "bo_write"}
    /\ pc = "user_reviews" => ReachesUserReviewsWrite
    /\ exc' = WriteError(TableAt(pc))
    /\ pc' = "raised"
    /\ user_reviews_df' = IF pc = "user_reviews" THEN WithUserId(user_reviews_df)
                          ELSE user_reviews_df
    /\ UNCHANGED <<sales, meta, i, unique_genres, genre_table, genre_lookup,
                   meta_lookup, processed_titles, movie_id_counter, final_movies,
                   movie_lookup, bo_processed_titles, bo_movie_id_counter,
                   box_office_data, performance_id, db, expert_reviews_df>>
    /\ UNCHANGED workers

\* a sales row and a metadata row, and at most one review of each kind
StoreDatasets ==
    {DefaultSales} \X {DefaultMeta}
        \X {d \in ReviewerUserReviews \cup CountUserReviews : Len(d) <= 1}
        \X {d \in ExpertReviews : Len(d) <= 1}

InitStore == InitWith(StoreDatasets)

NextStore == Next \/ WriteFails

SpecStore == InitStore /\ [][NextStore]_vars

(***************************************************************************)
(* The builders run one per worker.  run_database.py calls them one after  *)
(* the other; here the same calls are made over the same loaded datasets   *)
(* by six workers that share one processor, in any order and switching     *)
(* between any two statements.  A builder's locals (its lookups, counters, *)
(* lists) are its own; the datasets and the store are shared.  The script  *)
(* runs first, from an empty store, and what it ended with is kept in      *)
(* script_run; the workers then start again from an empty store.           *)
(***************************************************************************)

\* the first statement of a builder call
Entry(b) ==
    CASE b = "movie" -> "genre_sales"
      [] b = "users" -> "users"
      [] b = "user_reviews" -> "user_reviews"
      [] b = "experts" -> "experts"
      [] b = "expert_reviews" -> "expert_reviews"
      [] b = "box_office" -> "bo_lookup"

\* the statement of run_database.py a builder call returns to
Exit(b) ==
    CASE b = "movie" -> "users"
      [] b = "users" -> "user_reviews"
      [] b = "user_reviews" -> "experts"
      [] b = "experts" -> "expert_reviews"
      [] b = "expert_reviews" -> "bo_lookup"
      [] b = "box_office" -> "done"

\* the user reviews as read_csv loaded them: no user_id column
Loaded(df) == [k \in 1..Len(df) |-> [df[k] EXCEPT !.user_id = None]]

\* a statement of a builder is executing: the script's, or the running worker's
Executing ==
    \/ mode = "script"
    \/ running # "" /\ pc # Exit(running)

\* run_database.py has ended; the same datasets are handed to the workers
Restart ==
    /\ mode = "script"
    /\ pc \in {"done", "raised"}
    /\ script_run' = [db |-> db, exc |-> exc]
    /\ mode' = "workers"
    /\ pc' = "idle"
    /\ i' = 1
    /\ unique_genres' = {}
    /\ genre_table' = <<>>
    /\ genre_lookup' = EmptyDict
    /\ meta_lookup' = EmptyDict
    /\ processed_titles' = {}
    /\ movie_id_counter' = 1
    /\ final_movies' = <<>>
    /\ movie_lookup' = EmptyDict
    /\ bo_processed_titles' = {}
    /\ bo_movie_id_counter' = 1
    /\ box_office_data' = <<>>
    /\ performance_id' = 1
    /\ db' = NoTables
    /\ exc' = ""
    /\ user_reviews_df' = Loaded(user_reviews_df)
    /\ UNCHANGED <<sales, meta, expert_reviews_df, running, stage>>

\* a worker is given the processor and calls its builder
Start ==
    /\ mode = "workers"
    /\ pc = "idle"
    /\ \E b \in Builders :
           /\ stage[b].at = "start"
           /\ running' = b
           /\ stage' = [stage EXCEPT ![b] = At("running", 1)]
           /\ pc' = Entry(b)
    /\ UNCHANGED <<sales, meta, i, unique_genres, genre_table, genre_lookup,
                   meta_lookup, processed_titles, movie_id_counter, final_movies,
                   movie_lookup, bo_processed_titles, bo_movie_id_counter,
                   box_office_data, performance_id, db, exc, reviews,
                   mode, script_run>>

\* the running worker loses the processor between two statements
Suspend ==
    /\ mode = "workers"
    /\ running # ""
    /\ pc \notin {Exit(running), "raised"}
    /\ stage' = [stage EXCEPT ![running] = At(pc, i)]
    /\ running' = ""
    /\ pc' = "idle"
    /\ i' = 1
    /\ UNCHANGED <<sales, meta, unique_genres, genre_table, genre_lookup,
                   meta_lookup, processed_titles, movie_id_counter, final_movies,
                   movie_lookup, bo_processed_titles, bo_movie_id_counter,
                   box_office_data, performance_id, db, exc, reviews,
                   mode, script_run>>

\* a suspended worker carries on where it was
Resume ==
    /\ mode = "workers"
    /\ pc = "idle"
    /\ \E b \in Builders :
           /\ stage[b].at \notin {"start", "running", "done", "raised"}
           /\ running' = b
           /\ pc' = stage[b].at
           /\ i' = stage[b].row
           /\ stage' = [stage EXCEPT ![b] = At("running", 1)]
    /\ UNCHANGED <<sales, meta, unique_genres, genre_table, genre_lookup,
                   meta_lookup, processed_titles, movie_id_counter, final_movies,
                   movie_lookup, bo_processed_titles, bo_movie_id_counter,
                   box_office_data, performance_id, db, exc, reviews,
                   mode, script_run>>

\* the running worker's builder returns
Finish ==
    /\ mode = "workers"
    /\ running # ""
    /\ pc = Exit(running)
    /\ stage' = [stage EXCEPT ![running] = At("done", 1)]
    /\ running' = ""
    /\ pc' = "idle"
    /\ UNCHANGED <<sales, meta, i, unique_genres, genre_table, genre_lookup,
                   meta_lookup, processed_titles, movie_id_counter, final_movies,
                   movie_lookup, bo_processed_titles, bo_movie_id_counter,
                   box_office_data, performance_id, db, exc, reviews,
                   mode, script_run>>

\* the running worker's builder raised: that worker ends, the others go on
Crash ==
    /\ mode = "workers"
    /\ running # ""
    /\ pc = "raised"
    /\ stage' = [stage EXCEPT ![running] = At("raised", 1)]
    /\ running' = ""
    /\ pc' = "idle"
    /\ i' = 1
    /\ UNCHANGED <<sales, meta, unique_genres, genre_table, genre_lookup,
                   meta_lookup, processed_titles, movie_id_counter, final_movies,
                   movie_lookup, bo_processed_titles, bo_movie_id_counter,
                   box_office_data, performance_id, db, exc, reviews,
                   mode, script_run>>

\* a titled row, a titled row whose year is a text, an untitled row
WorkerSales ==
    {DefaultSales,
     << SalesRow(<<"T">>, <<"a">>, YearText, <<"A">>, DefaultFin) >>,
     << SalesRow(NaN, <<"a">>, Year2010, <<"A">>, DefaultFin) >>}

\* no review, a review, a review whose counts are infinite
WorkerUserReviews ==
    {<<>>,
     << UserRow(1, <<"x">>, <<"3">>, <<"4">>, <<"5">>) >>,
     << UserRow(1, NaN, <<"i", "n", "f">>, <<"4">>, <<"5">>) >>}

WorkerDatasets ==
    WorkerSales \X {SingleLabelMeta} \X WorkerUserReviews
        \X {<<>>, << ExpertRow(1, <<"x">>) >>}

InitWorkers == InitWith(WorkerDatasets)

NextWorkers ==
    \/ Executing /\ GenreScanSales
    \/ Executing /\ GenreScanMeta
    \/ Executing /\ GenreWrite
    \/ Executing /\ BuildGenreLookup
    \/ Executing /\ MetadataLookupStep
    \/ Executing /\ MovieStep
    \/ Executing /\ MovieWrite
    \/ Executing /\ CreateUserTable
    \/ Executing /\ CreateUserReviewsTable
    \/ Executing /\ CreateExpertTable
    \/ Executing /\ CreateExpertReviewsTable
    \/ Executing /\ MovieLookupStep
    \/ Executing /\ BoxOfficeStep
    \/ Executing /\ BoxOfficeWrite
    \/ Executing /\ BoxOfficeReport
    \/ Restart
    \/ Start
    \/ Suspend
    \/ Resume
    \/ Finish
    \/ Crash

SpecWorkers == InitWorkers /\ [][NextWorkers]_vars

(***************************************************************************)
(* Properties.                                                             *)
(***************************************************************************)

\* the loop of build_movie_database has ended
MoviesBuilt == pc = "movie_write"

\* create_movie_lookup_from_sales has returned
LookupBuilt == pc = "bo_loop" /\ i = 1

\* the second loop of create_box_office_performance_table has ended
BoxOfficeBuilt == pc = "bo_write"

Titled(k) == notna(sales[k].title)

TitledRows == {k \in 1..Len(sales) : Titled(k)}

\* the (title_normalized, year) pair of sales row k
Pair(k) == <<sales[k].title_normalized, sales[k].year>>

\* the first titled row, in file order, with the pair of row k
FirstOf(k) ==
    CHOOSE j \in TitledRows :
        Pair(j) = Pair(k) /\ \A h \in TitledRows : Pair(h) = Pair(k) => j <= h

TitledPairs == {Pair(k) : k \in TitledRows}

RecordPair(m) == <<m.title_normalized, m.release_year>>

\* (pair, ID) as the movie builder assigned them
MoviePairIds ==
    {<<RecordPair(m), m.movie_id>> : m \in Range(final_movies)}

\* (pair, ID) as create_movie_lookup_from_sales assigned them
LookupPairIds ==
    {<<Pair(k), movie_lookup[lookup_title_year_key(sales[k], sales)]>> :
        k \in {h \in TitledRows :
                  lookup_title_year_key(sales[h], sales) \in DOMAIN movie_lookup}}

\* C1: the movie builder and create_movie_lookup_from_sales, each run over the
\* same sales dataset, give every (title_normalized, year) pair the same ID:
\* the two pair-to-ID mappings are equal.
C1_CrossBuilderAgreement ==
    LookupBuilt =>
        /\ MoviePairIds = LookupPairIds
        /\ {p[1] : p \in LookupPairIds} = TitledPairs
        /\ Cardinality(DOMAIN movie_lookup) = Len(final_movies)

\* both builders finished on a dataset with two movies and a dropped duplicate
C1_Witness ==
    /\ LookupBuilt
    /\ Len(final_movies) = 2
    /\ Cardinality(TitledRows) = 3

\* C2: rows with a title and the same (title_normalized, year) give exactly one
\* identity and exactly one movie record, and that record is the one built
\* from the first such row in file order alone.
C2_DuplicateSuppression ==
    MoviesBuilt =>
        /\ Len(final_movies) = Cardinality(TitledPairs)
        /\ Cardinality(processed_titles) = Cardinality(TitledPairs)
        /\ \A k \in TitledRows :
               LET first == sales[FirstOf(k)]
                   recs == {n \in 1..Len(final_movies) :
                               RecordPair(final_movies[n]) = Pair(k)}
               IN  /\ Cardinality(recs) = 1
                   /\ \A n \in recs :
                          /\ final_movies[n].title = first.title
                          /\ final_movies[n] \in
                                 combine_data(first,
                                              find_metadata_match(
                                                  first, create_metadata_lookup(meta)),
                                              meta, GenreLookup(genre_table),
                                              final_movies[n].movie_id)

\* two titled rows with the same pair and different titles were merged into
\* the table: one record, carrying the first row's title
C2_Witness ==
    /\ MoviesBuilt
    /\ \E j, k \in TitledRows :
           /\ j < k
           /\ Pair(j) = Pair(k)
           /\ sales[j].title # sales[k].title
           /\ FirstOf(k) = j

\* the keys among the titled rows before row n
PairsBefore(n) == {Pair(k) : k \in {h \in TitledRows : h < n}}

\* C3: in both resolver loops the next ID is 1 plus the number of distinct
\* keys accepted so far; after the loops the IDs are exactly 1..n, distinct
\* pairs have distinct IDs, and IDs increase in order of first occurrence.
C3_SequentialIds ==
    /\ pc = "movie_loop" =>
           /\ movie_id_counter = 1 + Cardinality(processed_titles)
           /\ movie_id_counter = 1 + Cardinality(PairsBefore(i))
    /\ pc = "bo_lookup" =>
           /\ bo_movie_id_counter = 1 + Cardinality(bo_processed_titles)
           /\ bo_movie_id_counter = 1 + Cardinality(PairsBefore(i))
    /\ MoviesBuilt =>
           /\ \A n \in 1..Len(final_movies) : final_movies[n].movie_id = n
           /\ {RecordPair(m) : m \in Range(final_movies)} = TitledPairs
           /\ Len(final_movies) = Cardinality(TitledPairs)
           /\ \A j, k \in TitledRows :
                  FirstOf(j) < FirstOf(k) =>
                      \A a, b \in 1..Len(final_movies) :
                          /\ RecordPair(final_movies[a]) = Pair(j)
                          /\ RecordPair(final_movies[b]) = Pair(k)
                          => final_movies[a].movie_id < final_movies[b].movie_id
    /\ LookupBuilt =>
           /\ Range(movie_lookup) = 1..Cardinality(TitledPairs)
           /\ Cardinality(DOMAIN movie_lookup) = Cardinality(TitledPairs)
           /\ \A j, k \in TitledRows :
                  FirstOf(j) < FirstOf(k) =>
                      movie_lookup[lookup_title_year_key(sales[j], sales)]
                          < movie_lookup[lookup_title_year_key(sales[k], sales)]

\* the resolver loop is past three titled rows, one of them a duplicate
C3_Witness ==
    /\ pc = "movie_loop"
    /\ i = 4
    /\ movie_id_counter = 3
    /\ Cardinality(TitledRows) = 3

\* the titled rows that are the first with their pair: the accepted rows
AcceptedRows == {k \in TitledRows : FirstOf(k) = k}

\* the release year of a metadata row: the year its RelDate starts with
ReleaseYear(movie) == RelDateYear(movie.RelDate)

\* the metadata rows with the title and the year of a sales row
ExactRows(r) ==
    {k \in 1..Len(meta) :
        /\ notna(meta[k].title_normalized)
        /\ meta[k].title_normalized = r.title_normalized
        /\ notna(r.year)
        /\ ParseInt(r.year) # None
        /\ ReleaseYear(meta[k]) = ParseInt(r.year)}

\* the metadata rows with the title of a sales row
TitleRows(r) ==
    {k \in 1..Len(meta) :
        /\ notna(meta[k].title_normalized)
        /\ meta[k].title_normalized = r.title_normalized}

\* `found` is what the priority order allows for sales row r
MatchInPriorityOrder(r, found) ==
    IF ExactRows(r) # {} THEN found # None /\ found[1] \in ExactRows(r)
    ELSE IF TitleRows(r) # {} THEN found # None /\ found[1] \in TitleRows(r)
    ELSE found = None

C5_FirstTitleRowIndexed ==
    pc = "movie_loop" =>
        \A k \in 1..Len(meta) :
            notna(meta[k].title_normalized) =>
                /\ TitleOnly(meta[k].title_normalized) \in DOMAIN meta_lookup
                /\ \A j \in 1..Len(meta) :
                       meta[j].title_normalized = meta[k].title_normalized =>
                           meta_lookup[TitleOnly(meta[k].title_normalized)] <= j

\* C6: the box-office table has exactly one row per accepted movie, no
\* movie_id twice, and performance_id 1..M in emission order.
C6_OneRowPerMovie ==
    BoxOfficeBuilt =>
        /\ Len(box_office_data) = Cardinality(DOMAIN movie_lookup)
        /\ \A a, b \in 1..Len(box_office_data) :
               a # b => box_office_data[a].movie_id # box_office_data[b].movie_id
        /\ \A n \in 1..Len(box_office_data) :
               box_office_data[n].performance_id = n

\* the n-th titled row of the sales dataset
NthTitled(n) ==
    CHOOSE k \in TitledRows : Cardinality({h \in TitledRows : h <= k}) = n

\* C7: each financial field of a box-office row is 0 when the source value is
\* missing or not a number and the source number otherwise, and no titled row
\* is dropped for such a value.
C7_FinancialCoercion ==
    BoxOfficeBuilt =>
        /\ Len(box_office_data) = Cardinality(TitledRows)
        /\ \A n \in 1..Len(box_office_data) :
               \A f \in FinFields :
                   LET source == sales[NthTitled(n)].fin[f]
                   IN  box_office_data[n].fin[f] =
                           IF ~notna(source) \/ ParseInt(source) = None
                           THEN <<"0">>
                           ELSE source

\* create_genre_table has just written its table
GenreWritten == pc = "genre_lookup" /\ db.genre # None

\* the places that bound the pieces of s: before it, after it, each separator
Breaks(s, sep) == {0, Len(s) + 1} \cup {k \in 1..Len(s) : s[k] = sep}

\* the pieces of s between neighbouring separators
Pieces(s, sep) ==
    {SubSeq(s, a + 1, b - 1) :
        <<a, b>> \in {p \in Breaks(s, sep) \X Breaks(s, sep) :
                         /\ p[1] < p[2]
                         /\ ~\E c \in Breaks(s, sep) : p[1] < c /\ c < p[2]}}

\* s without the whitespace around it
Trimmed(s) ==
    LET inked == {k \in 1..Len(s) : s[k] \notin Whitespace}
    IN  IF inked = {} THEN <<>>
        ELSE SubSeq(s, CHOOSE a \in inked : \A k \in inked : a <= k,
                       CHOOSE b \in inked : \A k \in inked : k <= b)

\* the non-empty tokens of a genre cell: comma before slash
Tokens(cell) ==
    LET pieces == IF \E k \in 1..Len(cell) : cell[k] = ","
                  THEN Pieces(cell, ",")
                  ELSE IF \E k \in 1..Len(cell) : cell[k] = "/"
                  THEN Pieces(cell, "/")
                  ELSE {cell}
    IN  {Trimmed(piece) : piece \in pieces} \ {<<>>}

SalesCells == {sales[k].genre : k \in 1..Len(sales)}
MetaCells == {meta[k].genre : k \in 1..Len(meta)}

\* the labels of both genre columns
AllLabels == UNION {Tokens(cell) : cell \in SalesCells \cup MetaCells}

\* a < b by code point, position by position
Precedes(a, b) ==
    \E p \in 1..Len(b) :
        /\ \A q \in 1..(p - 1) : q <= Len(a) /\ a[q] = b[q]
        /\ \/ p = Len(a) + 1
           \/ p <= Len(a) /\ Ord(a[p]) < Ord(b[p])

\* C8: the Name column of the genre table is exactly the set of non-empty
\* trimmed tokens of all genre cells of both datasets, each once, in
\* lexicographic order, and GenreId is the 1-based position.
C8_GenreTable ==
    GenreWritten =>
        /\ db.genre = Some(genre_table)
        /\ {genre_table[n].Name : n \in 1..Len(genre_table)} = AllLabels
        /\ Len(genre_table) = Cardinality(AllLabels)
        /\ \A n \in 1..Len(genre_table) : genre_table[n].GenreId = n
        /\ \A n \in 1..(Len(genre_table) - 1) :
               Precedes(genre_table[n].Name, genre_table[n + 1].Name)

\* a table of three labels met out of order, one of them only in the metadata
C8_Witness ==
    /\ GenreWritten
    /\ Len(genre_table) = 3
    /\ \E k \in 1..Len(meta) :
           Tokens(meta[k].genre) \ UNION {Tokens(cell) : cell \in SalesCells} # {}
    /\ Len(sales) = 2
    /\ \E a \in Tokens(sales[1].genre) : \E b \in Tokens(sales[2].genre) :
           Precedes(b, a)

GenreColumn(df) == [k \in 1..Len(df) |-> df[k].genre]

Swap(cells, a, b) ==
    [k \in 1..Len(cells) |->
        IF k = a THEN cells[b] ELSE IF k = b THEN cells[a] ELSE cells[k]]

RemoveAt(cells, a) ==
    [k \in 1..(Len(cells) - 1) |-> IF k < a THEN cells[k] ELSE cells[k + 1]]

\* the two genre columns with two rows of one dataset exchanged, or with one
\* cell moved to the other dataset; every reordering is a chain of these
Rearranged(sales_cells, meta_cells) ==
    {<<Swap(sales_cells, a, b), meta_cells>> :
        a \in 1..Len(sales_cells), b \in 1..Len(sales_cells)}
    \cup {<<sales_cells, Swap(meta_cells, a, b)>> :
             a \in 1..Len(meta_cells), b \in 1..Len(meta_cells)}
    \cup {<<RemoveAt(sales_cells, a), Append(meta_cells, sales_cells[a])>> :
             a \in 1..Len(sales_cells)}
    \cup {<<Append(sales_cells, meta_cells[a]), RemoveAt(meta_cells, a)>> :
             a \in 1..Len(meta_cells)}

\* C9: the label-to-ID assignment of the genre table is the same for the
\* datasets with their rows reordered, or with a genre cell moved from one
\* dataset to the other.
C9_GenreOrderInvariance ==
    pc = "genre_lookup" =>
        \A v \in Rearranged(GenreColumn(sales), GenreColumn(meta)) :
            GenreLookup(create_genre_table(v[1], v[2])) = GenreLookup(genre_table)

\* the table was written for rows whose labels are met out of order, with a
\* label of the metadata that the sales rows lack
C9_Witness ==
    /\ pc = "genre_lookup"
    /\ Len(sales) = 2
    /\ Len(meta) = 1
    /\ Len(genre_table) = 3
    /\ \E a \in Tokens(sales[1].genre) : \E b \in Tokens(sales[2].genre) :
           Precedes(b, a)
    /\ Tokens(meta[1].genre) \ UNION {Tokens(cell) : cell \in SalesCells} # {}

\* "Action, Comedy/Drama" in the letters of the model
CommaAndSlash == <<"A", ",", " ", "B", "/", "C">>

\* C10: a cell with a comma is split on commas only, a cell with a slash and
\* no comma on slashes, any other cell is one token, and tokens are trimmed;
\* the sales scan and the metadata scan of the genre builder and
\* get_genre_ids all tokenize this way.
C10_CommaBeforeSlash ==
    /\ pc = "genre_lookup" =>
           \A cell \in SalesCells \cup MetaCells :
               /\ SalesRowGenres(cell) \ {<<>>} = Tokens(cell)
               /\ MetaRowGenres(cell) \ {<<>>} = Tokens(cell)
               /\ MergerTextGenres(cell) \ {<<>>} = Tokens(cell)
               /\ cell = CommaAndSlash =>
                      SalesRowGenres(cell) = {<<"A">>, <<"B", "/", "C">>}
    /\ pc = "genre_sales" =>
           unique_genres \ {<<>>} =
               UNION {Tokens(sales[k].genre) : k \in 1..(i - 1)}
    /\ pc = "genre_meta" =>
           unique_genres \ {<<>>} =
               UNION {Tokens(cell) : cell \in SalesCells}
                   \cup UNION {Tokens(meta[k].genre) : k \in 1..(i - 1)}

\* the scan is past a sales cell with a comma and a slash and kept the slash
\* inside its token
C10_Witness ==
    /\ pc = "genre_meta"
    /\ CommaAndSlash \in SalesCells
    /\ <<"B", "/", "C">> \in unique_genres
    /\ <<"B">> \notin unique_genres

\* the IDs a genre_ids text lists, in its order
ListedIds(text) ==
    LET parts == Split(text, ",")
    IN  [k \in 1..Len(parts) |-> ParseInt(parts[k])[1]]

\* the GenreId of the rows of the written genre table named by the labels
IdsOf(labels) ==
    {genre_table[n].GenreId :
        n \in {h \in 1..Len(genre_table) : genre_table[h].Name \in labels}}

\* the metadata rows the priority order allows as the match of sales row r
Candidates(r) ==
    IF ExactRows(r) # {} THEN ExactRows(r) ELSE TitleRows(r)

\* the genre labels of an accepted sales row and of metadata row h, if any
MovieLabels(k, h) ==
    Tokens(sales[k].genre) \cup (IF h = 0 THEN {} ELSE Tokens(meta[h].genre))

\* genre_ids lists exactly the IDs of the labels, each once; null when none
EncodesIds(genre_ids, ids) ==
    IF ids = {} THEN genre_ids = None
    ELSE /\ genre_ids # None
         /\ Len(ListedIds(genre_ids[1])) = Cardinality(ids)
         /\ Range(ListedIds(genre_ids[1])) = ids

\* C11: the genre_ids of every accepted movie lists exactly the IDs of the
\* labels of its sales genre text and, if a metadata row matched, of that
\* row's genre text: each ID once, a token that is not in the genre lookup
\* dropped, and null exactly when no token resolves.
C11_GenreIdsEncodeUnion ==
    MoviesBuilt =>
        \A n \in 1..Len(final_movies) :
            \E k \in AcceptedRows :
                /\ RecordPair(final_movies[n]) = Pair(k)
                /\ \E h \in (IF Candidates(sales[k]) = {} THEN {0}
                              ELSE Candidates(sales[k])) :
                       EncodesIds(final_movies[n].genre_ids,
                                  IdsOf(MovieLabels(k, h)))

\* a movie was merged whose two genre texts share a label, the sales text
\* having an empty token besides
C11_Witness ==
    /\ MoviesBuilt
    /\ \E k \in AcceptedRows : \E h \in Candidates(sales[k]) :
           /\ Tokens(sales[k].genre) \cap Tokens(meta[h].genre) # {}
           /\ Tokens(meta[h].genre) \ Tokens(sales[k].genre) # {}
           /\ <<>> \in MergerTextGenres(sales[k].genre)

\* the sales fields of record m are those of sales row k
PrimaryFrom(m, k) ==
    /\ m.title = sales[k].title
    /\ m.title_normalized = sales[k].title_normalized
    /\ m.runtime = sales[k].runtime
    /\ m.release_year = sales[k].year
    /\ m.release_date = sales[k].release_date
    /\ m.metacritic_url = sales[k].url

\* the metadata fields of record m are those of metadata row h
SecondaryFrom(m, h) ==
    /\ m.director = meta[h].director
    /\ m.studio = meta[h].studio
    /\ m.rating = meta[h].rating
    /\ m.critic_score = meta[h].metascore
    /\ m.user_score = meta[h].userscore
    /\ m.cast = meta[h].cast
    /\ m.summary = meta[h].summary
    /\ m.awards = meta[h].awards

\* the metadata fields of record m are all null
SecondaryNull(m) ==
    \A v \in {m.director, m.studio, m.rating, m.critic_score, m.user_score,
               m.cast, m.summary, m.awards} : v = None

\* C12: in every movie record the sales fields are copied from the accepted
\* sales row, and the metadata fields are all null when no metadata row
\* matched and all copied from one matched metadata row otherwise.
C12_FieldProvenance ==
    MoviesBuilt =>
        \A n \in 1..Len(final_movies) :
            \E k \in AcceptedRows :
                /\ RecordPair(final_movies[n]) = Pair(k)
                /\ PrimaryFrom(final_movies[n], k)
                /\ IF Candidates(sales[k]) = {}
                   THEN SecondaryNull(final_movies[n])
                   ELSE \E h \in Candidates(sales[k]) :
                            SecondaryFrom(final_movies[n], h)

\* a movie was merged from a metadata row that other metadata rows follow
C12_Witness ==
    /\ MoviesBuilt
    /\ \E n \in 1..Len(final_movies) : \E h \in 1..(Len(meta) - 1) :
           /\ SecondaryFrom(final_movies[n], h)
           /\ ~SecondaryFrom(final_movies[n], Len(meta))
           /\ PrimaryFrom(final_movies[n], 1)

\* both user tables have just been written
UsersWritten == pc = "experts"

\* the user-review rows without a reviewer name
NullNameRows ==
    {k \in 1..Len(user_reviews_df) : ~notna(user_reviews_df[k].reviewer)}

\* the rows of the users table named "Anonymous"
AnonymousUsers ==
    {u \in 1..Len(db.users[1]) : db.users[1][u].reviewer = Anonymous}

\* C13: every user-review row without a reviewer name gets one and the same
\* user identity, the one named "Anonymous" in the users table, and the
\* users table has exactly one "Anonymous" row however many such rows exist.
C13_SingleAnonymous ==
    UsersWritten /\ NullNameRows # {} =>
        /\ Cardinality(AnonymousUsers) = 1
        /\ \A u \in 1..Len(db.users[1]) : notna(db.users[1][u].reviewer)
        /\ \A k \in NullNameRows : \A u \in AnonymousUsers :
               db.user_reviews[1][k].user_id = Some(db.users[1][u].user_id)

\* two rows without a name, after a named row, got the second identity
C13_Witness ==
    /\ UsersWritten
    /\ Cardinality(NullNameRows) = 2
    /\ 1 \notin NullNameRows
    /\ \A k \in NullNameRows : db.user_reviews[1][k].user_id = Some(2)
    /\ Len(db.users[1]) = 2

\* the cell is written as a whole number or as a decimal number
WrittenAsNumber(cell) ==
    \E p \in 1..Len(cell) :
        /\ \A k \in 1..p : \E d \in 1..10 : Digits[d] = cell[k]
        /\ \/ p = Len(cell)
           \/ /\ p + 1 < Len(cell)
              /\ cell[p + 1] = "."
              /\ \A k \in (p + 2)..Len(cell) : \E d \in 1..10 : Digits[d] = cell[k]

\* the whole part of a cell written as a number
WholePart(cell) ==
    LET p == CHOOSE p \in 1..Len(cell) :
                 /\ \A k \in 1..p : \E d \in 1..10 : Digits[d] = cell[k]
                 /\ p = Len(cell) \/ cell[p + 1] = "."
    IN  DigitsValue(SubSeq(cell, 1, p))

\* 0 for a missing cell or one that is not a number, else its integer value
CoercedCount(cell) ==
    IF WrittenAsNumber(cell) THEN WholePart(cell) ELSE 0

\* every review row has its three counts coerced
CountsCoerced ==
    UsersWritten =>
        /\ Len(db.user_reviews[1]) = Len(user_reviews_df)
        /\ \A k \in 1..Len(user_reviews_df) :
               /\ db.user_reviews[1][k].thumbs_up =
                      CoercedCount(user_reviews_df[k].thumbsUp)
               /\ db.user_reviews[1][k].total_score =
                      CoercedCount(user_reviews_df[k].thumbsTot)
               /\ db.user_reviews[1][k].word_count =
                      CoercedCount(user_reviews_df[k].WC)

\* C14: thumbs_up, total_score and word_count are 0 when the source value is
\* missing or not a number and its integer value otherwise, and no value of
\* these columns makes create_user_reviews_table fail.
C14_CountCoercion ==
    /\ CountsCoerced
    /\ exc # "IntCastingNaNError"

\* both expert tables have just been written
ExpertsWritten == pc = "bo_lookup" /\ i = 1 /\ db.expert_reviews # None

\* C15: an expert-review row without a reviewer name is kept in
\* expert_reviews with a null ExpertId and takes the next ReviewId, the
\* experts table has no row for a missing name, expert_reviews has as many
\* rows as the source, and ReviewId runs 1..N in source order.
C15_MissingExpertKept ==
    ExpertsWritten =>
        LET reviews_data == db.expert_reviews[1]
            experts_data == db.experts[1]
        IN  /\ Len(reviews_data) = Len(expert_reviews_df)
            /\ \A n \in 1..Len(reviews_data) :
                   /\ reviews_data[n].ReviewId = n
                   /\ reviews_data[n].MovieUrl = expert_reviews_df[n].url
                   /\ reviews_data[n].ExpertId = None
                          <=> ~notna(expert_reviews_df[n].reviewer)
            /\ {experts_data[e].ReviewerName : e \in 1..Len(experts_data)}
                   = {expert_reviews_df[n].reviewer :
                         n \in {h \in 1..Len(expert_reviews_df) :
                                    notna(expert_reviews_df[h].reviewer)}}

\* a row without a name between two named rows was kept as review 2
C15_Witness ==
    /\ ExpertsWritten
    /\ Len(expert_reviews_df) = 3
    /\ ~notna(expert_reviews_df[2].reviewer)
    /\ db.expert_reviews[1][2].ExpertId = None
    /\ db.expert_reviews[1][3].ExpertId = Some(2)
    /\ Len(db.experts[1]) = 2

\* the year of sales row k is absent or is not an integer
NoYear(k) == ~notna(sales[k].year) \/ ParseInt(sales[k].year) = None

\* the release date of metadata row h has no year int() parses
NoReleaseYear(h) == ReleaseYear(meta[h]) = None

\* C16: an absent or unparseable year or date never makes the movie builder
\* fail: a titled sales row without an integer year is accepted and merged
\* with a metadata row of its title if there is one, a metadata row without
\* a parseable release year is indexed by its title only, and neither
\* create_metadata_lookup nor find_metadata_match raises.
C16_YearNeverRaises ==
    /\ exc # "ValueError: int()"
    /\ pc = "movie_loop" =>
           \A h \in 1..Len(meta) :
               notna(meta[h].title_normalized) /\ NoReleaseYear(h) =>
                   /\ TitleOnly(meta[h].title_normalized) \in DOMAIN meta_lookup
                   /\ \A key \in DOMAIN meta_lookup :
                          key.year # None => meta_lookup[key] # h
    /\ MoviesBuilt =>
           \A k \in AcceptedRows :
               NoYear(k) =>
                   \E n \in 1..Len(final_movies) :
                       /\ PrimaryFrom(final_movies[n], k)
                       /\ IF TitleRows(sales[k]) = {}
                          THEN SecondaryNull(final_movies[n])
                          ELSE \E h \in TitleRows(sales[k]) :
                                   SecondaryFrom(final_movies[n], h)

\* what the builder of a table has built for it
Built(table) ==
    CASE table = "genre" -> genre_table
      [] table = "movie" -> final_movies
      [] table = "users" -> users_table(user_reviews_df)
      [] table = "user_reviews" -> user_reviews_table(user_reviews_df)
      [] table = "experts" -> experts_table(expert_reviews_df)
      [] table = "expert_reviews" -> expert_reviews_data(expert_reviews_df)
      [] table = "box_office_performance" -> box_office_data

\* C17: when the write of a table fails the run stops there: the tables
\* written before hold what was built for them in this run, the failing
\* table and every later table keep what they held before the run, and no
\* write follows the failure.
C17_WriteFailureStopsRun ==
    \A p \in 1..Len(WriteOrder) :
        exc = WriteError(WriteOrder[p]) =>
            /\ pc = "raised"
            /\ \A q \in 1..(p - 1) :
                   db[WriteOrder[q]] = Some(Built(WriteOrder[q]))
            /\ \A q \in p..Len(WriteOrder) : db[WriteOrder[q]] = None

\* the write of the users table failed after the genre and the movie tables
\* were written with rows
C17_Witness ==
    /\ exc = WriteError("users")
    /\ db.genre # None /\ db.genre[1] # <<>>
    /\ db.movie # None /\ db.movie[1] # <<>>
    /\ db.users = None
    /\ user_reviews_df # <<>>

\* the loop over the sales rows is running: rows are being merged
Merging == pc = "movie_loop"

\* C19: the genre table is computed and written before the first sales row
\* is merged, and the genre lookup every merge uses is exactly the
\* label-to-ID mapping of the genre table written in this run.
C19_GenreTableBeforeMerge ==
    /\ Merging =>
           /\ db.genre # None
           /\ db.genre[1] = genre_table
           /\ DOMAIN genre_lookup =
                  {db.genre[1][n].Name : n \in 1..Len(db.genre[1])}
           /\ \A n \in 1..Len(db.genre[1]) :
                  genre_lookup[db.genre[1][n].Name] = db.genre[1][n].GenreId
    /\ final_movies # <<>> => db.genre # None

\* a first row was merged with two genre IDs of the written table
C19_Witness ==
    /\ Merging
    /\ i = 2
    /\ Len(final_movies) = 1
    /\ final_movies[1].genre_ids # None
    /\ Len(ListedIds(final_movies[1].genre_ids[1])) = 2
    /\ Len(db.genre[1]) = 3

\* one of the three loops over the sales rows is at a row without a title
AtUntitledRow ==
    /\ pc \in {"movie_loop", "bo_lookup", "bo_loop"}
    /\ i <= Len(sales)
    /\ ~Titled(i)

\* C20: a sales row without a title is dropped by the movie builder and by
\* both loops of the box-office builder, whatever its title_normalized: the
\* step over it adds no movie record and no box-office row, takes no movie
\* ID and no performance ID, adds no key to the seen keys and raises nothing.
C20_UntitledRowDropped ==
    [][AtUntitledRow =>
          /\ pc' = pc
          /\ i' = i + 1
          /\ UNCHANGED <<final_movies, movie_id_counter, processed_titles,
                         movie_lookup, bo_movie_id_counter, bo_processed_titles,
                         box_office_data, performance_id, db, exc>>]_vars

\* all three loops have passed a row with a normalized title and no title,
\* and a titled row made the one movie and the one box-office row
C20_Witness ==
    /\ pc = "bo_write"
    /\ \E k \in 1..Len(sales) :
           ~Titled(k) /\ notna(sales[k].title_normalized)
    /\ Cardinality(TitledRows) = 1
    /\ Len(final_movies) = 1
    /\ Len(box_office_data) = 1
    /\ performance_id = 2

\* every worker's builder has returned or raised
AllReturned ==
    /\ mode = "workers"
    /\ \A b \in Builders : stage[b].at \in {"done", "raised"}

\* C18: once the builders have run one per worker over the same loaded
\* datasets, in any order and interleaved between any two statements, each
\* of the seven tables holds what it holds after run_database.py has run
\* the builders one after the other
C18_AnyOrderSameTables == AllReturned => db = script_run.db

\* the movie table has been written
MovieWritten == pc = "users" /\ db.movie # None

\* the n-th accepted row of the sales dataset, in file order
NthAccepted(n) ==
    CHOOSE k \in AcceptedRows : Cardinality({h \in AcceptedRows : h <= k}) = n

\* C21: the movie table has one row per accepted sales row, in the order the
\* rows were accepted: its k-th row has movie_id k and carries the sales
\* fields of the k-th accepted sales row in file order
C21_MovieTableOrder ==
    MovieWritten =>
        LET table == db.movie[1]
        IN  /\ Len(table) = Cardinality(AcceptedRows)
            /\ \A k \in 1..Len(table) :
                   LET row == sales[NthAccepted(k)]
                   IN  /\ table[k].movie_id = k
                       /\ table[k].title = row.title
                       /\ table[k].title_normalized = row.title_normalized
                       /\ table[k].release_year = row.year
                       /\ table[k].runtime = row.runtime
                       /\ table[k].release_date = row.release_date
                       /\ table[k].metacritic_url = row.url

\* a table of two movies was written from three sales rows, the second
\* movie from the third row
C21_Witness ==
    /\ MovieWritten
    /\ Len(db.movie[1]) = 2
    /\ Len(sales) = 3
    /\ NthAccepted(2) = 3
    /\ db.movie[1][2].title = sales[3].title

\* the reviewer value of user-review row k, a missing one read as "Anonymous"
ReviewerValue(k) ==
    IF notna(user_reviews_df[k].reviewer) THEN user_reviews_df[k].reviewer
    ELSE Anonymous

ReviewerValues == {ReviewerValue(k) : k \in 1..Len(user_reviews_df)}

\* the first row, in file order, with a reviewer value
FirstReview(name) ==
    CHOOSE k \in 1..Len(user_reviews_df) :
        /\ ReviewerValue(k) = name
        /\ \A h \in 1..Len(user_reviews_df) : ReviewerValue(h) = name => k <= h

\* the place of a reviewer value among the values, by first occurrence
OccurrenceRank(name) ==
    Cardinality({other \in ReviewerValues : FirstReview(other) <= FirstReview(name)})

\* C22: the users table numbers the distinct reviewer values, a missing one
\* read as "Anonymous", 1..K in order of first occurrence, and the user_id of
\* every user_reviews row is the user_id of the one users row named by that
\* review's reviewer value
C22_UserIdsAgree ==
    UsersWritten =>
        LET users == db.users[1]
            user_reviews == db.user_reviews[1]
        IN  /\ Len(users) = Cardinality(ReviewerValues)
            /\ \A u \in 1..Len(users) :
                   /\ users[u].user_id = u
                   /\ users[u].reviewer \in ReviewerValues
                   /\ OccurrenceRank(users[u].reviewer) = u
            /\ Len(user_reviews) = Len(user_reviews_df)
            /\ \A k \in 1..Len(user_reviews) :
                   LET named == {u \in 1..Len(users) :
                                    users[u].reviewer = ReviewerValue(k)}
                   IN  /\ Cardinality(named) = 1
                       /\ \A u \in named :
                              user_reviews[k].user_id = Some(users[u].user_id)

\* three reviews by two reviewers, the first reviewer again in the third row
C22_Witness ==
    /\ UsersWritten
    /\ Len(user_reviews_df) = 3
    /\ ReviewerValue(1) # ReviewerValue(2)
    /\ ReviewerValue(3) = ReviewerValue(1)
    /\ db.user_reviews[1][2].user_id = Some(2)
    /\ db.user_reviews[1][3].user_id = Some(1)

\* C23: on every sales dataset, one with no accepted movie included, once
\* the write of the box-office table has succeeded
\* create_box_office_performance_table returns: nothing in the data makes
\* it raise
C23_BoxOfficeReturns == db.box_office_performance # None => pc # "raised"

\* the expert-review rows that have a reviewer name
NamedReviews ==
    {k \in 1..Len(expert_reviews_df) : notna(expert_reviews_df[k].reviewer)}

ExpertNames == {expert_reviews_df[k].reviewer : k \in NamedReviews}

\* the first row, in file order, with a reviewer name
FirstExpertReview(name) ==
    CHOOSE k \in NamedReviews :
        /\ expert_reviews_df[k].reviewer = name
        /\ \A h \in NamedReviews : expert_reviews_df[h].reviewer = name => k <= h

\* the place of a name among the names, by first occurrence
ExpertRank(name) ==
    Cardinality({other \in ExpertNames :
                    FirstExpertReview(other) <= FirstExpertReview(name)})

\* C24: the experts table numbers the distinct non-null reviewer names 1..K
\* in order of first occurrence; every non-null ExpertId of expert_reviews
\* is the ExpertId of the experts row with that review's reviewer name; and
\* an expert's TotalReviews is the number of expert_reviews rows that carry
\* its ExpertId
C24_ExpertIdsAgree ==
    ExpertsWritten =>
        LET experts_data == db.experts[1]
            reviews_data == db.expert_reviews[1]
        IN  /\ Len(experts_data) = Cardinality(ExpertNames)
            /\ \A e \in 1..Len(experts_data) :
                   /\ experts_data[e].ExpertId = e
                   /\ experts_data[e].ReviewerName \in ExpertNames
                   /\ ExpertRank(experts_data[e].ReviewerName) = e
                   /\ experts_data[e].TotalReviews =
                          Cardinality({n \in 1..Len(reviews_data) :
                                          reviews_data[n].ExpertId =
                                              Some(experts_data[e].ExpertId)})
            /\ \A n \in NamedReviews :
                   \E e \in 1..Len(experts_data) :
                       /\ experts_data[e].ReviewerName = expert_reviews_df[n].reviewer
                       /\ reviews_data[n].ExpertId = Some(experts_data[e].ExpertId)

\* three reviews: the later name of the alphabet first, then the earlier
\* one, then the first again
C24_Witness ==
    /\ ExpertsWritten
    /\ Len(expert_reviews_df) = 3
    /\ expert_reviews_df[1].reviewer = <<"y">>
    /\ expert_reviews_df[2].reviewer = <<"x">>
    /\ expert_reviews_df[3].reviewer = <<"y">>
    /\ db.experts[1][1].TotalReviews = 2
    /\ db.expert_reviews[1][3].ExpertId = Some(1)

\* the GenreId column of the written genre table
WrittenGenreIds == {db.genre[1][g].GenreId : g \in 1..Len(db.genre[1])}

\* the label is a row of the written genre table and genre_ids lists its ID
Resolves(label, genre_ids) ==
    /\ genre_ids # None
    /\ \E g \in 1..Len(db.genre[1]) :
           /\ db.genre[1][g].Name = label
           /\ db.genre[1][g].GenreId \in Range(ListedIds(genre_ids[1]))

\* C25: once the movies are built, every ID in a movie's genre_ids is the
\* GenreId of a row of the genre table written in the run, and no token is
\* dropped: every non-empty token of the accepted row's genre text and of
\* its matched metadata row's genre text is a row of that table whose ID
\* the movie lists
C25_GenreIdsResolve ==
    MoviesBuilt =>
        /\ db.genre # None
        /\ \A n \in 1..Len(final_movies) :
               /\ final_movies[n].genre_ids # None =>
                      Range(ListedIds(final_movies[n].genre_ids[1]))
                          \subseteq WrittenGenreIds
               /\ \E k \in AcceptedRows :
                      /\ RecordPair(final_movies[n]) = Pair(k)
                      /\ \E h \in (IF Candidates(sales[k]) = {} THEN {0}
                                    ELSE Candidates(sales[k])) :
                             \A label \in MovieLabels(k, h) :
                                 Resolves(label, final_movies[n].genre_ids)

\* a movie was merged with a metadata row whose genre text has a label the
\* sales text has not; the movie lists both IDs
C25_Witness ==
    /\ MoviesBuilt
    /\ Len(final_movies) = 1
    /\ \E k \in AcceptedRows : \E h \in Candidates(sales[k]) :
           /\ Tokens(sales[k].genre) # {}
           /\ Tokens(meta[h].genre) \ Tokens(sales[k].genre) # {}
           /\ \A label \in MovieLabels(k, h) :
                  Resolves(label, final_movies[1].genre_ids)

\* the movie table and the box-office table have both been written
BothWritten == pc = "bo_report"

\* the movie_id column of a written table
MovieIdsOf(table) == {table[n].movie_id : n \in 1..Len(table)}

\* C26: the box-office table and the movie table hold the same set of
\* movie_id values, and for every movie_id there is one box-office row, built
\* from the accepted sales row the movie row was built from
C26_BoxOfficeMatchesMovies ==
    BothWritten =>
        LET movies == db.movie[1]
            rows == db.box_office_performance[1]
        IN  /\ MovieIdsOf(rows) = MovieIdsOf(movies)
            /\ \A m \in 1..Len(movies) :
                   LET source == sales[NthAccepted(movies[m].movie_id)]
                       mine == {n \in 1..Len(rows) :
                                   rows[n].movie_id = movies[m].movie_id}
                   IN  /\ movies[m].title = source.title
                       /\ Cardinality(mine) = 1
                       /\ \A n \in mine :
                              rows[n].fin =
                                  box_office_record(source, sales, n, movie_lookup).fin

\* C27: no builder changes a dataset it is given: over every step of every
\* builder the sales, metadata, user-review and expert-review datasets keep
\* their rows, columns and values
C27_InputsUnchanged ==
    [][UNCHANGED <<sales, meta, user_reviews_df, expert_reviews_df>>]_vars

====
